---------------------------- MODULE Spec2Model ----------------------------
(***************************************************************************)
(* Model of ngspyce/electronics_value_parser.py: value_parser(value), the  *)
(* conversion of a schematic value label ('4k7', '10 uF', '100R') into a   *)
(* (magnitude, unit) pair.                                                 *)
(*                                                                         *)
(* A Python string is a sequence of characters; a character is a           *)
(* one-letter TLA+ string, or a name for the four non-ASCII code points of *)
(* the tables: "OHM_SIGN" (U+2126), "OMEGA" (U+03A9), "MU" (U+03BC) and    *)
(* "MICRO" (U+00B5).                                                       *)
(*                                                                         *)
(* A float is modelled as an exact decimal: [kind |-> "fin", neg, m, e]    *)
(* stands for (-1)^neg * m * 10^e, normalised so that m has no trailing    *)
(* zero; "inf" and "nan" are the two non-finite kinds.  Overflow to        *)
(* infinity is modelled; binary rounding is not, so equality of magnitudes *)
(* is equality "to ordinary floating-point precision".  A multiplier 1eN   *)
(* of the prefix table is the integer N.                                   *)
(***************************************************************************)
EXTENDS Integers, Sequences, FiniteSets

VARIABLES
    value,   \* the text the caller holds: the body of every argument it passes
    suffix,  \* a unit symbol the caller writes after the body (<<>>: none)
    calls    \* the calls of value_parser made so far: a set of [arg, out]

vars == <<value, suffix, calls>>

-----------------------------------------------------------------------------
(* Bounds of the model *)

\* the longest text a caller holds (the labels of Examples apart)
MaxLen == 4

\* the most spaces a caller writes in one place
MaxSpaces == 2

\* the most calls logged
MaxCalls == 2

-----------------------------------------------------------------------------
(* Python's str and float primitives *)

None == "None"

IsSpace(c) == c \in {" ", "\t", "\n"}

IsDigit(c) == c \in {"0", "1", "2", "3", "4", "5", "6", "7", "8", "9"}

DigitVal(c) ==
    CASE c = "0" -> 0 [] c = "1" -> 1 [] c = "2" -> 2 [] c = "3" -> 3
      [] c = "4" -> 4 [] c = "5" -> 5 [] c = "6" -> 6 [] c = "7" -> 7
      [] c = "8" -> 8 [] c = "9" -> 9

Lower(c) ==
    CASE c = "I" -> "i" [] c = "N" -> "n" [] c = "F" -> "f" [] c = "A" -> "a"
      [] c = "T" -> "t" [] c = "Y" -> "y" [] OTHER -> c

lower(s) == [i \in 1..Len(s) |-> Lower(s[i])]

RECURSIVE lstrip(_)
lstrip(s) == IF s # <<>> /\ IsSpace(s[1]) THEN lstrip(Tail(s)) ELSE s

RECURSIVE rstrip(_)
rstrip(s) ==
    IF s # <<>> /\ IsSpace(s[Len(s)]) THEN rstrip(SubSeq(s, 1, Len(s) - 1)) ELSE s

\* str.strip()
strip(s) == rstrip(lstrip(s))

\* s.endswith(k)
endswith(s, k) ==
    /\ Len(k) <= Len(s)
    /\ SubSeq(s, Len(s) - Len(k) + 1, Len(s)) = k

\* s.find(k) + 1: the place of the first occurrence of k in s, 0 when none
find(s, k) ==
    LET hits == {i \in 1..(Len(s) - Len(k) + 1) : SubSeq(s, i, i + Len(k) - 1) = k}
    IN  IF hits = {} THEN 0 ELSE CHOOSE i \in hits : \A j \in hits : i <= j

\* k in s
contains(k, s) == find(s, k) # 0

\* s.split(k): s cut at every occurrence of k, left to right
RECURSIVE split(_, _)
split(s, k) ==
    LET i == find(s, k)
    IN  IF i = 0 THEN <<s>>
        ELSE <<SubSeq(s, 1, i - 1)>> \o split(SubSeq(s, i + Len(k), Len(s)), k)

\* the decimal digits of d, underscores skipped, as a natural number
RECURSIVE NatOf(_)
NatOf(d) ==
    IF d = <<>> THEN 0
    ELSE IF d[Len(d)] = "_" THEN NatOf(SubSeq(d, 1, Len(d) - 1))
    ELSE 10 * NatOf(SubSeq(d, 1, Len(d) - 1)) + DigitVal(d[Len(d)])

NumDigitChars(d) == Cardinality({i \in 1..Len(d) : IsDigit(d[i])})

\* digitpart ::= digit (["_"] digit)*
IsDigitPart(d) ==
    /\ d # <<>>
    /\ IsDigit(d[1]) /\ IsDigit(d[Len(d)])
    /\ \A i \in 1..Len(d) : IsDigit(d[i]) \/ d[i] = "_"
    /\ \A i \in 1..(Len(d) - 1) : ~(d[i] = "_" /\ d[i + 1] = "_")

RECURSIVE NumDigits(_)
NumDigits(m) == IF m < 10 THEN 1 ELSE 1 + NumDigits(m \div 10)

RECURSIVE Pow10(_)
Pow10(n) == IF n = 0 THEN 1 ELSE 10 * Pow10(n - 1)

Inf(neg) == [kind |-> "inf", neg |-> neg, m |-> 0, e |-> 0]

NaN == [kind |-> "nan", neg |-> FALSE, m |-> 0, e |-> 0]

\* the first four significant digits of m
Lead(m) ==
    IF NumDigits(m) <= 4 THEN m * Pow10(4 - NumDigits(m))
    ELSE m \div Pow10(NumDigits(m) - 4)

\* m * 10^e is beyond the largest finite double, 1.797...e308 (decided on
\* the first four digits of m)
Overflows(m, e) ==
    LET o == NumDigits(m) + e - 1
    IN  m # 0 /\ (o > 308 \/ (o = 308 /\ Lead(m) > 1797))

\* m * 10^e is nearer to zero than to the smallest double, 4.94...e-324
Underflows(m, e) ==
    LET o == NumDigits(m) + e - 1
    IN  m # 0 /\ (o < 0 - 324 \/ (o = 0 - 324 /\ Lead(m) <= 2470))

RECURSIVE Norm(_, _, _)
Norm(neg, m, e) ==
    IF m = 0 THEN [kind |-> "fin", neg |-> neg, m |-> 0, e |-> 0]
    ELSE IF m % 10 = 0 THEN Norm(neg, m \div 10, e + 1)
    ELSE [kind |-> "fin", neg |-> neg, m |-> m, e |-> e]

\* the double nearest to (-1)^neg * m * 10^e
Fin(neg, m, e) ==
    IF Overflows(m, e) THEN Inf(neg)
    ELSE IF Underflows(m, e) THEN Norm(neg, 0, 0)
    ELSE Norm(neg, m, e)

\* x * 10^k, the product of a float and a multiplier of the tables
Times(x, k) == IF x.kind = "fin" THEN Fin(x.neg, x.m, x.e + k) ELSE x

NoFloat == [ok |-> FALSE, val |-> NaN]

\* the first place of an exponent marker in s, 0 when none
ExpMark(s) ==
    LET hits == {i \in 1..Len(s) : s[i] \in {"e", "E"}}
    IN  IF hits = {} THEN 0 ELSE CHOOSE i \in hits : \A j \in hits : i <= j

\* [sign] digitpart, as an integer
IsExponent(x) ==
    /\ x # <<>>
    /\ IsDigitPart(IF x[1] \in {"+", "-"} THEN Tail(x) ELSE x)

ExponentOf(x) ==
    IF x[1] = "-" THEN 0 - NatOf(Tail(x))
    ELSE IF x[1] = "+" THEN NatOf(Tail(x)) ELSE NatOf(x)

\* float(s) of a string: Python's floating point literal, surrounded by
\* optional whitespace; [ok |-> FALSE] stands for ValueError
float(s) ==
    LET t == strip(s)
        signed == t # <<>> /\ t[1] \in {"+", "-"}
        neg == signed /\ t[1] = "-"
        body == IF signed THEN Tail(t) ELSE t
        x == ExpMark(body)
        mant == IF x = 0 THEN body ELSE SubSeq(body, 1, x - 1)
        expo == IF x = 0 THEN <<>> ELSE SubSeq(body, x + 1, Len(body))
        dot == find(mant, <<".">>)
        int == IF dot = 0 THEN mant ELSE SubSeq(mant, 1, dot - 1)
        frac == IF dot = 0 THEN <<>> ELSE SubSeq(mant, dot + 1, Len(mant))
    IN  IF lower(body) \in {<<"i", "n", "f">>,
                            <<"i", "n", "f", "i", "n", "i", "t", "y">>}
        THEN [ok |-> TRUE, val |-> Inf(neg)]
        ELSE IF lower(body) = <<"n", "a", "n">>
        THEN [ok |-> TRUE, val |-> NaN]
        ELSE IF /\ int = <<>> \/ IsDigitPart(int)
                /\ frac = <<>> \/ IsDigitPart(frac)
                /\ int # <<>> \/ frac # <<>>
                /\ x = 0 \/ IsExponent(expo)
        THEN [ok |-> TRUE,
              val |-> Fin(neg, NatOf(int \o frac),
                          (IF x = 0 THEN 0 ELSE ExponentOf(expo))
                              - NumDigitChars(frac))]
        ELSE NoFloat

-----------------------------------------------------------------------------
(* The three tables, in the order the source writes them: a dict is        *)
(* iterated in insertion order.                                            *)

\* prefixes: key -> multiplier (as a power of ten)
prefixes ==
    << [key |-> <<"Y">>, mul |-> 24],
       [key |-> <<"Z">>, mul |-> 21],
       [key |-> <<"E">>, mul |-> 18],
       [key |-> <<"P">>, mul |-> 15],
       [key |-> <<"T">>, mul |-> 12],
       [key |-> <<"G">>, mul |-> 9],
       [key |-> <<"M">>, mul |-> 6],
       [key |-> <<"M", "E", "G">>, mul |-> 6],
       [key |-> <<"M", "e", "g">>, mul |-> 6],
       [key |-> <<"k">>, mul |-> 3],
       [key |-> <<"K">>, mul |-> 3],
       [key |-> <<"m">>, mul |-> 0 - 3],
       [key |-> <<"u">>, mul |-> 0 - 6],
       [key |-> <<"MU">>, mul |-> 0 - 6],
       [key |-> <<"MICRO">>, mul |-> 0 - 6],
       [key |-> <<"n">>, mul |-> 0 - 9],
       [key |-> <<"p">>, mul |-> 0 - 12],
       [key |-> <<"f">>, mul |-> 0 - 15],
       [key |-> <<"a">>, mul |-> 0 - 18],
       [key |-> <<"z">>, mul |-> 0 - 21],
       [key |-> <<"y">>, mul |-> 0 - 24] >>

\* (mutation) the update that adds 'R' is left out
infixes_NoR == prefixes

\* infixes = prefixes.copy(); infixes.update({'R': 1})
infixes == Append(prefixes, [key |-> <<"R">>, mul |-> 0])

\* units: symbol -> canonical unit name
units ==
    << [key |-> <<"R">>, name |-> "ohm"],
       [key |-> <<"OHM_SIGN">>, name |-> "ohm"],
       [key |-> <<"OMEGA">>, name |-> "ohm"],
       [key |-> <<"o", "h", "m">>, name |-> "ohm"],
       [key |-> <<"F">>, name |-> "farad"],
       [key |-> <<"H">>, name |-> "henry"],
       [key |-> <<"V">>, name |-> "volt"],
       [key |-> <<"A">>, name |-> "ampere"],
       [key |-> <<"W">>, name |-> "watt"],
       [key |-> <<"H", "z">>, name |-> "hertz"],
       [key |-> <<"C">>, name |-> "coulomb"],
       [key |-> <<"S">>, name |-> "siemen"] >>

\* a loop over a table that breaks at the first entry that hits: the place
\* of that entry, 0 when the loop ends without a break
FirstHit(hits) ==
    IF hits = {} THEN 0 ELSE CHOOSE i \in hits : \A j \in hits : i <= j

-----------------------------------------------------------------------------
(* value_parser *)

\* what a call leaves behind: how it ended (status: "ok", or the exception
\* raised), the pair returned, and the locals of the function when it ended:
\* test_unit (the unit symbol stripped), rest (value once the unit is
\* stripped), via (the branch that set mul), key (the table key that set
\* mul) and literal (the text handed to the final float())
Outcome(status, magnitude, unit, test_unit, rest, via, key, literal) ==
    [status |-> status, magnitude |-> magnitude, unit |-> unit,
     test_unit |-> test_unit, rest |-> rest, via |-> via, key |-> key,
     literal |-> literal]

\* (mutation) the symbol is looked for anywhere in value: test_unit in value
unit_scan_Contains(v, table) ==
    FirstHit({i \in 1..Len(table) : contains(table[i].key, v)})

\* for test_unit in units: if value.endswith(test_unit): ... break
\* the place in table of the unit symbol stripped, 0 for the else branch
unit_scan(v, table) ==
    FirstHit({i \in 1..Len(table) : endswith(v, table[i].key)})

\* (mutation) one character is cut, whatever the length of the symbol
strip_unit_OneChar(v, test_unit) == strip(SubSeq(v, 1, Len(v) - 1))

\* (mutation) the symbol is cut and the whitespace before it is kept
strip_unit_NoStrip(v, test_unit) == SubSeq(v, 1, Len(v) - Len(test_unit))

\* value[:-len(test_unit)].strip()
strip_unit(v, test_unit) == strip(SubSeq(v, 1, Len(v) - Len(test_unit)))

\* value[-1] in prefixes: the place of the key equal to the last character
trailing_prefix(v) ==
    FirstHit({i \in 1..Len(prefixes) : prefixes[i].key = <<v[Len(v)]>>})

\* (mutation) the longest key found in value is taken, not the first
infix_scan_Longest(v) ==
    LET hits == {i \in 1..Len(infixes) : contains(infixes[i].key, v)}
    IN  IF hits = {} THEN 0
        ELSE CHOOSE i \in hits :
                 \A j \in hits :
                     \/ Len(infixes[j].key) < Len(infixes[i].key)
                     \/ Len(infixes[j].key) = Len(infixes[i].key) /\ i <= j

\* for test_inf in infixes: if test_inf in value: ... break
infix_scan(v) ==
    FirstHit({i \in 1..Len(infixes) : contains(infixes[i].key, v)})

\* (mutation) the parts are joined without the decimal point
infix_literal_NoPoint(v, test_inf) ==
    LET parts == split(v, test_inf) IN parts[1] \o parts[2]

\* parts = value.split(test_inf); value = parts[0] + '.' + parts[1]
infix_literal(v, test_inf) ==
    LET parts == split(v, test_inf) IN parts[1] \o <<".">> \o parts[2]

\* value = float(value) * mul; return value, unit
finish(literal, mul, unit, test_unit, rest, via, key) ==
    LET f == float(literal)
    IN  IF f.ok
        THEN Outcome("ok", Times(f.val, mul), unit, test_unit, rest, via, key,
                     literal)
        ELSE Outcome("ValueError", NaN, None, test_unit, rest, via, key,
                     literal)

\* the except-branch of value_parser: v is not a float literal
slow_path(v, table) ==
    LET u == unit_scan(v, table)
        test_unit == IF u = 0 THEN <<>> ELSE table[u].key
        unit == IF u = 0 THEN None ELSE table[u].name
        w == IF u = 0 THEN v ELSE strip_unit(v, test_unit)
    IN  IF w = <<>>
        THEN \* value[-1] of the empty string
             Outcome("IndexError", NaN, None, test_unit, w, "none", <<>>, w)
        ELSE IF trailing_prefix(w) # 0
        THEN LET p == prefixes[trailing_prefix(w)]
             IN  finish(SubSeq(w, 1, Len(w) - 1), p.mul, unit, test_unit, w,
                        "trailing", p.key)
        ELSE IF infix_scan(w) # 0
        THEN LET x == infixes[infix_scan(w)]
             IN  finish(infix_literal(w, x.key), x.mul, unit, test_unit, w,
                        "infix", x.key)
        ELSE finish(w, 0, unit, test_unit, w, "none", <<>>)

\* value_parser(value) for a string value
value_parser(v) ==
    LET f == float(v)
    IN  IF f.ok
        THEN Outcome("ok", f.val, None, <<>>, v, "float", <<>>, v)
        ELSE slow_path(v, units)

-----------------------------------------------------------------------------
(* The callers: each call passes a label built from the text held, and     *)
(* the outcome is logged.                                                  *)

RECURSIVE Strs(_, _)
Strs(A, n) ==
    IF n = 0 THEN {<<>>}
    ELSE LET S == Strs(A, n - 1)
         IN  S \cup {Append(s, c) : s \in {t \in S : Len(t) = n - 1}, c \in A}

Spaces(n) == [i \in 1..n |-> " "]

\* value_parser(arg) is called and returns or raises
Call(arg) ==
    /\ Cardinality(calls) < MaxCalls
    /\ \A c \in calls : c.arg # arg
    /\ calls' = calls \cup {[arg |-> arg, out |-> value_parser(arg)]}
    /\ UNCHANGED <<value, suffix>>

\* the single-character keys of the prefix table, as characters
PrefixChars == {prefixes[i].key[1] : i \in {j \in 1..Len(prefixes) : Len(prefixes[j].key) = 1}}

\* the symbols of the units table
UnitSymbols == {units[i].key : i \in 1..Len(units)}

\* the canonical names of the units table
UnitNames == {units[i].name : i \in 1..Len(units)}

\* the four spellings of the ohm
OhmSpellings == {<<"R">>, <<"OHM_SIGN">>, <<"OMEGA">>, <<"o", "h", "m">>}

\* the labels of the tests and of the documentation
Examples ==
    { <<"4", "7", "0", "0">>, <<"4", ".", "7", "k">>, <<"4", "k", "7">>,
      <<"4", "7", "0", "0", "R">>, <<"3", "R", "3">>, <<"1", "0", "M", "E", "G">>,
      <<"1", "0", "M", "e", "g">>, <<"3", "k", "3", "k", "3">>, <<"1", "0", "H", "z">>,
      <<"k", "OHM_SIGN">>, <<"V">>, <<"1", "0", " ", "A">> }

Alphabets ==
    { {"1", "k", "R", "OHM_SIGN", " "},
      {"1", "i", "n", "f", "a"},
      {"1", "9", ".", "e", "E"},
      {"3", "k", "R", ".", " "},
      {"1", "M", "E", "G"},
      {"1", "M", "e", "g"},
      {"1", "H", "z", "k", " "},
      {"1", "o", "h", "m", "OMEGA"} }

\* non-empty strings of the digits 0, 4 and 7
DigitStrs == Strs({"0", "4", "7"}, MaxLen - 2) \ {<<>>}

\* a p b and a . b p for every single-character prefix key p
PrefixForms ==
    LET ab == {x \in DigitStrs \X DigitStrs : Len(x[1]) + Len(x[2]) + 2 <= MaxLen}
    IN  UNION {{x[1] \o <<p>> \o x[2], x[1] \o <<".">> \o x[2] \o <<p>>} :
                   x \in ab, p \in PrefixChars}

Inputs == UNION {Strs(A, MaxLen) : A \in Alphabets} \cup PrefixForms \cup Examples

\* one caller: the label is passed as it is
Init ==
    /\ value \in Inputs
    /\ suffix = <<>>
    /\ calls = {}

Next == Call(value)

Spec == Init /\ [][Next]_vars

\* a caller that writes the ohm after the text, in any of its spellings
InitOhm ==
    /\ value \in Strs({"4", ".", "k", " "}, MaxLen) \cup Examples
    /\ suffix = <<>>
    /\ calls = {}

NextOhm == \E sp \in OhmSpellings : Call(value \o sp)

SpecOhm == InitOhm /\ [][NextOhm]_vars

\* digits with an optional decimal point
IsDecimalText(s) ==
    /\ \A i \in 1..Len(s) : IsDigit(s[i]) \/ s[i] = "."
    /\ \E i \in 1..Len(s) : IsDigit(s[i])
    /\ Cardinality({i \in 1..Len(s) : s[i] = "."}) <= 1

\* a numeric part: digits with an optional decimal point, optionally
\* followed by a single-character prefix
NumericParts ==
    {d \o p : d \in {s \in Strs({"1", "."}, MaxLen - 2) \cup {<<"1", "0">>} :
                       IsDecimalText(s)},
              p \in {<<>>} \cup {<<c>> : c \in PrefixChars}}

\* a caller that writes a number, some spaces and a unit symbol
InitSpace ==
    /\ value \in NumericParts
    /\ suffix \in UnitSymbols
    /\ calls = {}

NextSpace == \E n \in 0..MaxSpaces : Call(value \o Spaces(n) \o suffix)

SpecSpace == InitSpace /\ [][NextSpace]_vars

\* a caller that passes the label with spaces around it
InitPad ==
    /\ value \in Strs({"1", "k", "A", " "}, MaxLen) \cup Examples
    /\ suffix = <<>>
    /\ calls = {}

NextPad == \E l \in 0..MaxSpaces, r \in 0..MaxSpaces : Call(Spaces(l) \o value \o Spaces(r))

SpecPad == InitPad /\ [][NextPad]_vars


-----------------------------------------------------------------------------
(* Notions the properties are stated in *)

\* a non-empty string of digits
IsDigits(s) == s # <<>> /\ \A i \in 1..Len(s) : IsDigit(s[i])

\* k is a suffix of s
IsSuffix(k, s) == \E n \in 0..Len(s) : SubSeq(s, n + 1, Len(s)) = k

\* the number a.b times 10^k
Number(a, b, k) == Norm(FALSE, NatOf(a \o b), k - Len(b))

\* the multiplier (power of ten) of the single-character prefix p
Multiplier(p) ==
    prefixes[CHOOSE i \in 1..Len(prefixes) : prefixes[i].key = <<p>>].mul

\* the call returned the pair (magnitude, unit)
Returned(o, magnitude, unit) ==
    o.status = "ok" /\ o.magnitude = magnitude /\ o.unit = unit

\* two calls ended alike: the same pair returned, or the same exception
SameResult(o1, o2) ==
    o1.status = o2.status /\ o1.magnitude = o2.magnitude /\ o1.unit = o2.unit

-----------------------------------------------------------------------------
\* C1: every malformed string fails with ValueError, and no call on a string
\* ends with any other kind of error: the empty string, a bare prefix
\* followed by a unit symbol, and a bare unit symbol all raise ValueError.
C1_OnlyValueError ==
    \A c \in calls :
        /\ c.out.status \in {"ok", "ValueError"}
        /\ c.arg \in {<<>>, <<"k", "OHM_SIGN">>, <<"V">>, <<"R">>}
               => c.out.status = "ValueError"

-----------------------------------------------------------------------------
\* the label is a p b: digits, one of the characters P, digits
InfixForm(arg, i, P) ==
    /\ arg[i] \in P
    /\ IsDigits(SubSeq(arg, 1, i - 1))
    /\ IsDigits(SubSeq(arg, i + 1, Len(arg)))

\* the label is a . b p: digits, a point, digits, one of the characters P
TrailingForm(arg, i, P) ==
    /\ arg[i] = "."
    /\ arg[Len(arg)] \in P
    /\ IsDigits(SubSeq(arg, 1, i - 1))
    /\ IsDigits(SubSeq(arg, i + 1, Len(arg) - 1))

\* the infix forms with p in PI and the trailing forms with p in PT parse to
\* a.b times the multiplier of p with no unit, and so do the examples
EquivalentForms(PI, PT) ==
    \A c \in calls :
        /\ \A i \in 1..Len(c.arg) :
               InfixForm(c.arg, i, PI) =>
                   Returned(c.out,
                            Number(SubSeq(c.arg, 1, i - 1),
                                   SubSeq(c.arg, i + 1, Len(c.arg)),
                                   Multiplier(c.arg[i])),
                            None)
        /\ \A i \in 1..Len(c.arg) :
               TrailingForm(c.arg, i, PT) =>
                   Returned(c.out,
                            Number(SubSeq(c.arg, 1, i - 1),
                                   SubSeq(c.arg, i + 1, Len(c.arg) - 1),
                                   Multiplier(c.arg[Len(c.arg)])),
                            None)
        /\ c.arg \in {<<"4", "7", "0", "0">>, <<"4", ".", "7", "k">>, <<"4", "k", "7">>}
               => Returned(c.out, Number(<<"4", "7", "0", "0">>, <<>>, 0), None)
        /\ c.arg = <<"4", "7", "0", "0", "R">>
               => Returned(c.out, Number(<<"4", "7", "0", "0">>, <<>>, 0), "ohm")

\* C2 as stated: for every single-character prefix key p and all non-empty
\* digit strings a and b, both a p b and a . b p parse to (a.b times the
\* multiplier of p, None).
C2_AllPrefixes == EquivalentForms(PrefixChars, PrefixChars)

\* C2 (amended): for every single-character prefix key p other than 'E' and
\* all non-empty digit strings a and b, the infix form a p b parses to (a.b
\* times the multiplier of p, None); the trailing form a . b p does so for
\* every single-character p, 'E' included; '4700', '4.7k' and '4k7' give
\* (4700, None) and '4700R' gives (4700, 'ohm').
C2_EquivalentForms == EquivalentForms(PrefixChars \ {"E"}, PrefixChars)

\* '4k7' and '4.7k' have been parsed to 4700
C2_Witness ==
    \E c \in calls :
        /\ c.arg \in {<<"4", "k", "7">>, <<"4", ".", "7", "k">>}
        /\ c.out.status = "ok" /\ c.out.unit = None
        /\ c.out.magnitude.m = 47 /\ c.out.magnitude.e = 2

-----------------------------------------------------------------------------
\* C3: whenever a call on a string returns, the magnitude is a finite number
\* and the unit is None or one of the canonical names of the units table.
C3_ResultGuarantee ==
    \A c \in calls :
        c.out.status = "ok" =>
            /\ c.out.magnitude.kind = "fin"
            /\ c.out.unit \in {None} \cup UnitNames

-----------------------------------------------------------------------------
\* C4: for any string s, the four labels s+'R', s+OHM SIGN, s+OMEGA and
\* s+'ohm' end alike: all fail, or all return the same magnitude with the
\* unit 'ohm'; '4.7k' followed by any of them gives (4700, 'ohm').
C4_OhmSpellings ==
    \A c1 \in calls, c2 \in calls :
        (\E s1 \in OhmSpellings, s2 \in OhmSpellings :
             c1.arg = value \o s1 /\ c2.arg = value \o s2) =>
            /\ (c1.out.status = "ok") = (c2.out.status = "ok")
            /\ c1.out.status = "ok" =>
                   /\ c1.out.magnitude = c2.out.magnitude
                   /\ c1.out.unit = "ohm" /\ c2.out.unit = "ohm"
            /\ value = <<"4", ".", "7", "k">> =>
                   Returned(c1.out, Number(<<"4", "7", "0", "0">>, <<>>, 0), "ohm")

\* '4.7k' has been parsed with two spellings of the ohm, one of them 'ohm'
C4_Witness ==
    \E c1 \in calls, c2 \in calls :
        /\ c1.arg = <<"4", ".", "7", "k", "o", "h", "m">>
        /\ c2.arg \in {<<"4", ".", "7", "k", "OHM_SIGN">>, <<"4", ".", "7", "k", "OMEGA">>}
        /\ c1.out.status = "ok" /\ c1.out.unit = "ohm" /\ c1.out.magnitude.m = 47
        /\ c2.out.status = "ok" /\ c2.out.unit = "ohm"

-----------------------------------------------------------------------------
\* C5: for every numeric part n (digits with an optional decimal point,
\* optionally followed by a single-character prefix) and every symbol u of
\* the units table, the labels n + spaces + u end as n + u does, whatever
\* the number of spaces; '10A', '10 A' and '10  A' give (10, 'ampere').
C5_SpacesBeforeUnit ==
    \A c1 \in calls, c2 \in calls :
        (/\ c1.arg = value \o suffix
         /\ \E n \in 0..Len(c2.arg) : c2.arg = value \o Spaces(n) \o suffix) =>
            /\ SameResult(c1.out, c2.out)
            /\ (value = <<"1", "0">> /\ suffix = <<"A">>) =>
                   Returned(c2.out, Number(<<"1", "0">>, <<>>, 0), "ampere")

\* '1.kA' and '1.k  A' have both been parsed to (1000, 'ampere')
C5_Witness ==
    \E c1 \in calls, c2 \in calls :
        /\ c1.arg = <<"1", ".", "k", "A">>
        /\ c2.arg = <<"1", ".", "k", " ", " ", "A">>
        /\ c1.out.status = "ok" /\ c2.out.status = "ok"
        /\ c2.out.unit = "ampere" /\ c2.out.magnitude.m = 1 /\ c2.out.magnitude.e = 3

-----------------------------------------------------------------------------
\* C6: for all non-empty digit strings a and b, a+'R'+b parses to (a.b,
\* None): the R is taken as the infix, with multiplier 1, and the unit is
\* None, not 'ohm'.
C6_BareInfixR ==
    \A c \in calls :
        \A i \in 1..Len(c.arg) :
            InfixForm(c.arg, i, {"R"}) =>
                /\ Returned(c.out,
                            Number(SubSeq(c.arg, 1, i - 1),
                                   SubSeq(c.arg, i + 1, Len(c.arg)), 0),
                            None)
                /\ c.out.via = "infix" /\ c.out.key = <<"R">>
                /\ c.out.test_unit = <<>>

\* '3R3' has been parsed to (3.3, None)
C6_Witness ==
    \E c \in calls :
        /\ c.arg = <<"3", "R", "3">>
        /\ c.out.status = "ok" /\ c.out.unit = None
        /\ c.out.magnitude.m = 33 /\ c.out.magnitude.e = 0 - 1

-----------------------------------------------------------------------------
\* the units table rotated by k places, and that table reversed: between
\* them, every two symbols of the table are met in both orders
Rotated(k) == [i \in 1..Len(units) |-> units[((i + k - 1) % Len(units)) + 1]]

Reversed(t) == [i \in 1..Len(t) |-> t[Len(t) - i + 1]]

\* the symbol the scan of v strips when the table is iterated as t
Stripped(v, t) ==
    LET u == unit_scan(v, t) IN IF u = 0 THEN <<>> ELSE t[u].key

\* C7: whenever the units are scanned, the symbol stripped is the longest
\* symbol of the table that is a suffix of the label (none when none is); a
\* label ending in 'Hz' is given 'hertz', never 'henry'; and the scan gives
\* the same symbol and unit in whatever order the table is iterated.
C7_LongestUnit ==
    \A c \in calls :
        c.out.via # "float" =>
            LET M == {k \in UnitSymbols : IsSuffix(k, c.arg)}
            IN  /\ M = {} => c.out.test_unit = <<>>
                /\ M # {} => /\ c.out.test_unit \in M
                             /\ \A k \in M : Len(k) <= Len(c.out.test_unit)
                /\ IsSuffix(<<"H", "z">>, c.arg) =>
                       /\ c.out.test_unit = <<"H", "z">>
                       /\ c.out.status = "ok" => c.out.unit = "hertz"
                /\ \A k \in 0..(Len(units) - 1) :
                       /\ Stripped(c.arg, Rotated(k)) = c.out.test_unit
                       /\ Stripped(c.arg, Reversed(Rotated(k))) = c.out.test_unit

\* '1Hz' has been parsed to (1, 'hertz')
C7_Witness ==
    \E c \in calls :
        /\ c.arg = <<"1", "H", "z">>
        /\ c.out.status = "ok" /\ c.out.unit = "hertz"
        /\ c.out.test_unit = <<"H", "z">>

-----------------------------------------------------------------------------
\* the number of places of s where k occurs
Occurrences(s, k) ==
    Cardinality({i \in 1..(Len(s) - Len(k) + 1) : SubSeq(s, i, i + Len(k) - 1) = k})

\* C8: when an infix key is found, the remaining string is split at the
\* first occurrence of the key only and the literal parsed is left + '.' +
\* all that follows that occurrence; a label in which the key chosen occurs
\* more than once fails as malformed, and returns no partial result.
C8_InfixKeepsRemainder ==
    \A c \in calls :
        c.out.via = "infix" =>
            LET i == find(c.out.rest, c.out.key)
            IN  /\ c.out.literal =
                       SubSeq(c.out.rest, 1, i - 1) \o <<".">>
                           \o SubSeq(c.out.rest, i + Len(c.out.key), Len(c.out.rest))
                /\ Occurrences(c.out.rest, c.out.key) > 1
                       => c.out.status = "ValueError"

-----------------------------------------------------------------------------
\* C9: for every string s that parses to (m, u), s with spaces added before
\* and/or after it parses to the same (m, u).
C9_SurroundingSpaces ==
    \A c1 \in calls, c2 \in calls :
        (/\ c1.arg = value
         /\ c1.out.status = "ok"
         /\ \E l \in 0..Len(c2.arg), r \in 0..Len(c2.arg) :
                c2.arg = Spaces(l) \o value \o Spaces(r)) =>
            SameResult(c1.out, c2.out)

-----------------------------------------------------------------------------
\* C10: the table key that sets the multiplier, as trailing prefix or as
\* infix, is always a single character: 'MEG' and 'Meg' are never chosen,
\* and digits followed by 'MEG' or by 'Meg' fail.
C10_SingleCharacterKey ==
    \A c \in calls :
        /\ c.out.via \in {"trailing", "infix"} => Len(c.out.key) = 1
        /\ (/\ Len(c.arg) > 3
            /\ IsDigits(SubSeq(c.arg, 1, Len(c.arg) - 3))
            /\ SubSeq(c.arg, Len(c.arg) - 2, Len(c.arg))
                   \in {<<"M", "E", "G">>, <<"M", "e", "g">>}) =>
               c.out.status # "ok"

\* '10Meg' has been parsed: the infix chosen was 'M', and the call failed
C10_Witness ==
    \E c \in calls :
        /\ c.arg = <<"1", "0", "M", "e", "g">>
        /\ c.out.via = "infix" /\ c.out.key = <<"M">>
        /\ c.out.status = "ValueError"

=============================================================================
